---- MODULE Spec2Model ----
(***************************************************************************)
(* Model of the pet bot of src/main.py: the sqlite table `pets` (one row   *)
(* per chat id), the commands /start, /name, /feed and /walk, the daily   *)
(* reset pass apply_daily_reset_all and the background task               *)
(* daily_reset_loop.                                                       *)
(*                                                                         *)
(* Time is counted in whole hours of Moscow local time since 00:00 of day  *)
(* 0.  A handler runs in one step from its call to its first await: the    *)
(* only await before the last write of /feed and /walk is the reply of the *)
(* cooldown gate, where a call whose reply raises is held until a later    *)
(* step.  random.* calls are choices with \E.                              *)
(***************************************************************************)
EXTENDS Integers, Sequences, FiniteSets, TLC

VARIABLES
    now,      \* wall clock, hours since 00:00 MSK of day 0
    store,    \* the table pets: chat_id -> row
    sched,    \* the task daily_reset_loop: [pc, target, since]
    last,     \* history: the operation that produced this state
    hist,     \* history: resets per date, consumed boycotts
    ncmds,    \* history: number of commands handled so far
    flight    \* the handler calls suspended at the reply of the gate, whose
              \* await ends in an exception

vars == <<now, store, sched, last, hist, ncmds, flight>>

---------------------------------------------------------------------------
(* Bounds of the model *)

\* number of midnights the clock runs through, and of /feed and /walk
\* commands handled, in a behaviour of Spec
MaxDays == 1
MaxCmds == 3
\* number of midnights the clock runs through in a behaviour of SchedSpec
\* and of LiveSpec
SchedDays == 3
\* /name commands in a behaviour of SchedSpec
SchedCmds == 1
\* midnights in a behaviour of CareSpec
CareDays == 1
\* midnights in a behaviour of CorruptSpec
CorruptDays == 1
\* midnights and commands in a behaviour of LongSpec
LongDays == 2
LongCmds == 2
\* midnights and feeds in a behaviour of FeedSpec
FeedDays == 3
FeedCmds == 4

\* chat ids that talk to the bot; in a behaviour of Spec one of them does
Chats == {1, 2}
GameChats == {1}

\* the words a user may send after /name
NameArgs == { <<>>, <<"Bob">>, <<"Sir", "Bob">> }

\* Telegram users as cmd_start sees them: full_name and username (either
\* may be missing)
Ann == [full_name |-> "Ann", username |-> "ann"]
Users == { Ann, [full_name |-> "", username |-> ""] }

---------------------------------------------------------------------------
(* Program constants *)

HoursPerDay == 24
\* how far before its wall-clock deadline the sleep of the loop may end
EarlyBy == 1
\* timedelta(hours=2) of the cooldowns
CooldownHours == 2
AngerMax == 100
SickThreshold == 100
OverfeedLimit == 2
OverfeedPenalty == 2
IllnessHunger == 50
IllnessCap == 200
BitePenalty == 5
SickFeedPenalty == 3
SickWalkPenalty == 2
HungerPerMiss == 20

\* the hours of a day at which something happens: midnight (an hour of the
\* evening period), two hours of the morning, one of the afternoon and the
\* last hour before midnight
Hours == {0, 9, 10, 14, 23}

\* the clock stops in the morning after the last midnight
Horizon(days) == days * HoursPerDay + 10

Max(a, b) == IF a >= b THEN a ELSE b
Min(a, b) == IF a <= b THEN a ELSE b

---------------------------------------------------------------------------
(* Time helpers *)

\* datetime.date() of an instant, as a day number
DateOf(t) == t \div HoursPerDay
\* datetime.hour of an instant
HourOf(t) == t % HoursPerDay

\* a TEXT column holding a timestamp, NULL, or text that is no timestamp
Null == [kind |-> "null", t |-> 0]
Garbage == [kind |-> "bad", t |-> 0]
\* datetime.isoformat(): the text of an instant
IsoFormat(t) == [kind |-> "iso", t |-> t]
\* truthiness of the column: `if pet.get('boycott_until')`
Truthy(txt) == txt.kind # "null"
\* datetime.fromisoformat(txt).astimezone(MSK): the instant, or a raised
\* ValueError
ParseOk(txt) == txt.kind = "iso"
FromIso(txt) == txt.t

meal_period_for_dt(t) ==
    IF 5 <= HourOf(t) /\ HourOf(t) <= 11 THEN "morning"
    ELSE IF 12 <= HourOf(t) /\ HourOf(t) <= 16 THEN "afternoon"
    ELSE "evening"

walk_period(t) ==
    IF 5 <= HourOf(t) /\ HourOf(t) <= 11 THEN "morning" ELSE "evening"

FeedField(period) ==
    CASE period = "morning" -> "feed_morning"
      [] period = "afternoon" -> "feed_afternoon"
      [] OTHER -> "feed_evening"

WalkField(period) ==
    IF period = "morning" THEN "walk_morning" ELSE "walk_evening"

---------------------------------------------------------------------------
(* DB helpers *)

\* a row as INSERT makes it: the column defaults of init_db
NewRow(chat_id, owner_name, pet_name, today) ==
    [ chat_id |-> chat_id, owner_name |-> owner_name, pet_name |-> pet_name,
      feed_morning |-> 0, feed_afternoon |-> 0, feed_evening |-> 0,
      walk_morning |-> 0, walk_evening |-> 0,
      total_feeds |-> 0, total_walks |-> 0,
      anger |-> 0, hunger_scale |-> 0,
      sick_until |-> Null, boycott_until |-> Null,
      experience |-> 0, days_lived |-> 0, last_reset |-> today,
      boycott_active |-> 0, sick_flag |-> 0 ]

HasPet(s, c) == c \in DOMAIN s

\* UPDATE pets SET k = v, ... WHERE chat_id = c; kv is a record of the
\* columns to set.  No row: nothing is updated.
update_pet(s, c, kv) ==
    IF ~HasPet(s, c) THEN s
    ELSE [s EXCEPT ![c] =
            [f \in DOMAIN s[c] |-> IF f \in DOMAIN kv THEN kv[f] ELSE s[c][f]]]

\* INSERT OR IGNORE, then get_pet
\* f"Vanya({username or 'no_nick'})", kept as its three pieces
PetName(username) ==
    <<"Vanya(", IF username = "" THEN "no_nick" ELSE username, ")">>
OwnerName(user) ==
    IF user.full_name # "" THEN user.full_name
    ELSE IF user.username # "" THEN user.username
    ELSE "Player"

\* an INSERT OR REPLACE: the row of an existing chat is made anew
create_pet_replace(s, c, owner_name, username, t) ==
    [x \in DOMAIN s \cup {c} |->
        IF x = c THEN NewRow(c, owner_name, PetName(username), DateOf(t))
        ELSE s[x]]

create_pet(s, c, owner_name, username, t) ==
    IF HasPet(s, c) THEN s
    ELSE [x \in DOMAIN s \cup {c} |->
            IF x = c THEN NewRow(c, owner_name, PetName(username), DateOf(t))
            ELSE s[x]]

---------------------------------------------------------------------------
(* Game logic: daily reset of one row *)

NoKv == [f \in {} |-> 0]
\* dict.update: the entries of b over those of a
Merge(a, b) ==
    [f \in DOMAIN a \cup DOMAIN b |-> IF f \in DOMAIN b THEN b[f] ELSE a[f]]

fed_m(pet) == pet.feed_morning > 0
fed_a(pet) == pet.feed_afternoon > 0
fed_e(pet) == pet.feed_evening > 0
walked_m(pet) == pet.walk_morning > 0
walked_e(pet) == pet.walk_evening > 0

AllMissed(pet) ==
    ~fed_m(pet) /\ ~fed_a(pet) /\ ~fed_e(pet) /\ ~walked_m(pet) /\ ~walked_e(pet)

MissedSlots(pet) ==
      (IF fed_m(pet) THEN 0 ELSE 1) + (IF fed_a(pet) THEN 0 ELSE 1)
    + (IF fed_e(pet) THEN 0 ELSE 1) + (IF walked_m(pet) THEN 0 ELSE 1)
    + (IF walked_e(pet) THEN 0 ELSE 1)

\* a pass that draws a penalty for every slot, fulfilled or not
DrawsEverySlot(pet) ==
    IF AllMissed(pet) THEN { [fm |-> 0, wm |-> 0, fa |-> 0, fe |-> 0, we |-> 0] }
    ELSE [ fm : 28..30, wm : 16..20, fa : 20..20, fe : 32..34, we : 16..20 ]

\* the random.randint draws of one row: a draw is made only for a missed
\* slot of a row that is not wholly neglected (0 stands for "not drawn")
Draws(pet) ==
    IF AllMissed(pet) THEN { [fm |-> 0, wm |-> 0, fa |-> 0, fe |-> 0, we |-> 0] }
    ELSE [ fm : IF fed_m(pet) THEN {0} ELSE 28..30,
           wm : IF walked_m(pet) THEN {0} ELSE 16..20,
           fa : IF fed_a(pet) THEN {0} ELSE 20..20,
           fe : IF fed_e(pet) THEN {0} ELSE 32..34,
           we : IF walked_e(pet) THEN {0} ELSE 16..20 ]

\* a pass without the clamp
ClampAngerOff(a) == a

\* the clamp `if anger > 100: anger = 100`
ClampAnger(a) == IF a > AngerMax THEN AngerMax ELSE a

\* a pass that works the anger of the day out from 0
ResetAngerFresh(pet, r) ==
    IF AllMissed(pet) THEN AngerMax
    ELSE ClampAnger(r.fm + r.wm + r.fa + r.fe + r.we)

\* lines 168-184: the anger the pass computes for a row, r its draws
ResetAnger(pet, r) ==
    IF AllMissed(pet) THEN AngerMax
    ELSE ClampAnger(pet.anger + r.fm + r.wm + r.fa + r.fe + r.we)

\* a pass that counts the three feeds only
hunger_add_feeds(pet) ==
    HungerPerMiss * (  (IF fed_m(pet) THEN 0 ELSE 1) + (IF fed_a(pet) THEN 0 ELSE 1)
                     + (IF fed_e(pet) THEN 0 ELSE 1))

\* lines 186-198: +20 for each missed slot
hunger_add(pet) == HungerPerMiss * MissedSlots(pet)
ResetHunger(pet) == pet.hunger_scale + hunger_add(pet)

\* a pass that penalises only the reset in which the row crosses the
\* threshold
SickUpdatesOnCrossing(pet, hunger) ==
    IF hunger >= SickThreshold /\ pet.hunger_scale < SickThreshold
    THEN [ sick_flag |-> 1, boycott_active |-> 1,
           total_feeds |-> Max(0, pet.total_feeds - SickFeedPenalty),
           total_walks |-> Max(0, pet.total_walks - SickWalkPenalty) ]
    ELSE NoKv

\* lines 200-207: hunger >= 100 -> markers and penalties on the totals
SickUpdates(pet, hunger) ==
    IF hunger >= SickThreshold
    THEN [ sick_flag |-> 1, boycott_active |-> 1,
           total_feeds |-> Max(0, pet.total_feeds - SickFeedPenalty),
           total_walks |-> Max(0, pet.total_walks - SickWalkPenalty) ]
    ELSE NoKv

\* a bite that takes the 5 off without the floor at 0
BiteUpdatesNoFloor(pet, anger) ==
    IF anger >= AngerMax
    THEN [ experience |-> pet.experience - BitePenalty, boycott_active |-> 1 ]
    ELSE NoKv

\* lines 209-212: anger >= 100 -> bite: -5 experience and boycott_active
BiteUpdates(pet, anger) ==
    IF anger >= AngerMax
    THEN [ experience |-> Max(0, pet.experience - BitePenalty),
           boycott_active |-> 1 ]
    ELSE NoKv

\* lines 200-227: the dict `updates` of one row, at instant t
ResetUpdates(pet, r, t) ==
    LET anger == ResetAnger(pet, r)
        hunger0 == ResetHunger(pet)
        hunger == IF hunger0 >= SickThreshold
                  THEN Max(hunger0, SickThreshold) ELSE hunger0
    IN  Merge(Merge(Merge(SickUpdates(pet, hunger0), BiteUpdates(pet, anger)),
                    [ anger |-> anger, hunger_scale |-> hunger,
                      days_lived |-> pet.days_lived + 1 ]),
              [ feed_morning |-> 0, feed_afternoon |-> 0, feed_evening |-> 0,
                walk_morning |-> 0, walk_evening |-> 0,
                last_reset |-> DateOf(t) ])

\* the dicts `updates` the draws can give for a row
ResetChoices(pet, t) == { ResetUpdates(pet, r, t) : r \in Draws(pet) }

MinOf(S) == CHOOSE x \in S : \A y \in S : x <= y

\* no row's processing raises
NoFail == 0

\* lines 158-230: the loop over the rows, in chat_id order; `failAt` is the
\* row whose processing raises (NoFail: none).  The exception leaves the
\* loop: the rows after it are not visited.  The stores the pass can leave.
RECURSIVE ResetRows(_, _, _, _)
ResetRows(s, todo, failAt, t) ==
    IF todo = {} THEN {s}
    ELSE LET c == MinOf(todo)
         IN  IF c = failAt THEN {s}
             ELSE UNION { ResetRows(update_pet(s, c, kv), todo \ {c}, failAt, t)
                            : kv \in ResetChoices(s[c], t) }

apply_daily_reset_all(s, failAt, t) == ResetRows(s, DOMAIN s, failAt, t)

\* whether apply_daily_reset_all raised
PassRaised(s, failAt) == failAt \in DOMAIN s

---------------------------------------------------------------------------
(* Post-action handler and the commands *)

\* a handler that looks at the sick marker only when no boycott was pending
handle_post_action_elif(s, c, t) ==
    IF ~HasPet(s, c) THEN s
    ELSE LET pet == s[c]
         IN  IF pet.boycott_active = 1
             THEN update_pet(s, c, [ boycott_active |-> 0,
                         boycott_until |-> IsoFormat(t + CooldownHours) ])
             ELSE IF pet.sick_flag = 1
             THEN update_pet(s, c, [ sick_flag |-> 0,
                         sick_until |-> IsoFormat(t + CooldownHours) ])
             ELSE s

\* lines 252-270: consume the pending markers of the row, at instant t
handle_post_action(s, c, t) ==
    IF ~HasPet(s, c) THEN s
    ELSE LET pet == s[c]
             b == IF pet.boycott_active = 1
                  THEN [ boycott_active |-> 0,
                         boycott_until |-> IsoFormat(t + CooldownHours) ]
                  ELSE NoKv
             k == IF pet.sick_flag = 1
                  THEN [ sick_flag |-> 0,
                         sick_until |-> IsoFormat(t + CooldownHours) ]
                  ELSE NoKv
             updates == Merge(b, k)
         IN  IF DOMAIN updates = {} THEN s ELSE update_pet(s, c, updates)

\* a gate without the try: the ValueError of text that does not parse ends
\* the handler before it writes anything
OnCooldownStrict(pet, t) ==
    /\ Truthy(pet.boycott_until)
    /\ (ParseOk(pet.boycott_until) => t < FromIso(pet.boycott_until))

\* a gate that sickness closes as well: its timer running or its marker
\* pending
OnCooldownOrSick(pet, t) ==
    \/ /\ Truthy(pet.boycott_until)
       /\ ParseOk(pet.boycott_until)
       /\ t < FromIso(pet.boycott_until)
    \/ /\ Truthy(pet.sick_until)
       /\ ParseOk(pet.sick_until)
       /\ t < FromIso(pet.sick_until)
    \/ pet.sick_flag = 1

\* lines 331-339 and 375-382: the boycott timer of the row is running at t.
\* Text that does not parse raises inside the try and is passed over.
OnCooldown(pet, t) ==
    /\ Truthy(pet.boycott_until)
    /\ ParseOk(pet.boycott_until)
    /\ t < FromIso(pet.boycott_until)

\* lines 361-364 and 402-405: the re-read row is at or over the threshold
SickRecheck(s, c, t) ==
    IF s[c].hunger_scale >= SickThreshold
    THEN update_pet(s, c, [sick_until |-> IsoFormat(t + CooldownHours)])
    ELSE s

\* lines 347-354: the overfeed branch of cmd_feed; `pet` is the row as read
\* at line 326, ill the outcome of random.random() < 0.01
Overfeed(s, c, pet, new_cnt, ill) ==
    IF new_cnt > OverfeedLimit
    THEN LET s1 == update_pet(s, c,
                     [experience |-> Max(0, pet.experience - OverfeedPenalty)])
         IN  IF ill
             THEN update_pet(s1, c,
                    [hunger_scale |->
                        Min(IllnessCap, pet.hunger_scale + IllnessHunger)])
             ELSE s1
    ELSE s

\* line 356: the counters of the feed, computed from the row as read at
\* line 326
FeedCounters(pet, field, new_cnt) ==
    (field :> new_cnt) @@ [ total_feeds |-> pet.total_feeds + 1,
                            experience |-> pet.experience + 1 ]

\* lines 331-339 and 375-382: with the timer running the handler awaits the
\* reply of line 336 (379) and returns.  That await is inside the try: when
\* reply_text raises, `except Exception: pass` takes it, the return is not
\* reached and the handler goes on to its writes.  `raises` is whether the
\* reply will raise: the handler is then held at the await with its writes
\* still to come.
GateRaised(s, c, t, raises) == HasPet(s, c) /\ OnCooldown(s[c], t) /\ raises

\* lines 341-364: the writes of /feed at instant t; `pet` is the row as read
\* at line 326
FeedWrites(s, c, pet, t, ill) ==
    LET field == FeedField(meal_period_for_dt(t))
        new_cnt == pet[field] + 1
        s1 == Overfeed(s, c, pet, new_cnt, ill)
        s2 == update_pet(s1, c, FeedCounters(pet, field, new_cnt))
        s3 == handle_post_action(s2, c, t)
    IN  SickRecheck(s3, c, t)

\* lines 324-366: /feed of chat c at instant t, from its call to its first
\* await.  No await comes before the last write of a feed that passes the
\* gate; at the gate nothing has been written.
cmd_feed(s, c, t, ill) ==
    IF ~HasPet(s, c) THEN s
    ELSE IF OnCooldown(s[c], t) THEN s
         ELSE FeedWrites(s, c, s[c], t, ill)

\* line 390: the counters of the walk
WalkCounters(pet, field, new_cnt) ==
    (field :> new_cnt) @@ [ total_walks |-> pet.total_walks + 1,
                            experience |-> pet.experience + 1 ]

\* lines 394-397: the random negative event; loss = 0 when it does not fire
WalkEvent(s, c, pet, loss) ==
    IF loss > 0
    THEN update_pet(s, c, [experience |-> Max(0, pet.experience - loss)])
    ELSE s

\* lines 384-405: the writes of /walk at instant t; `pet` is the row as read
\* at line 370
WalkWrites(s, c, pet, t, loss) ==
    LET field == WalkField(walk_period(t))
        new_cnt == pet[field] + 1
        s1 == update_pet(s, c, WalkCounters(pet, field, new_cnt))
        s2 == WalkEvent(s1, c, pet, loss)
        s3 == handle_post_action(s2, c, t)
    IN  SickRecheck(s3, c, t)

\* lines 368-407: /walk of chat c at instant t, from its call to its first
\* await
cmd_walk(s, c, t, loss) ==
    IF ~HasPet(s, c) THEN s
    ELSE IF OnCooldown(s[c], t) THEN s
         ELSE WalkWrites(s, c, s[c], t, loss)

\* a handler call held at the reply of the gate, lines 336 and 379: the
\* command, the chat, the row its get_pet read (line 326, 370), the time of
\* the call and its number among the commands
Call(op, c, s, t, id) ==
    [op |-> op, chat |-> c, t |-> t, read |-> s[c], id |-> id]

\* what a held call writes when its reply raises at instant t: the handler
\* goes on from line 341 (384) with the row it read before the await, reads
\* the clock and draws its random number (rnd) then
AfterReply(s, call, t, rnd) ==
    IF call.op = "feed"
    THEN FeedWrites(s, call.chat, call.read, t, rnd = 1)
    ELSE WalkWrites(s, call.chat, call.read, t, rnd)

\* " ".join(context.args)
RECURSIVE Join(_)
Join(args) ==
    IF Len(args) = 1 THEN args[1] ELSE args[1] \o " " \o Join(Tail(args))

\* lines 291-298: /name with the words `args` after it.  Without words the
\* handler replies with the usage; else it renames the pet of the chat, the
\* UPDATE touching no row when the chat has none.
cmd_name(s, c, args) ==
    IF args = <<>> THEN s
    ELSE update_pet(s, c, [pet_name |-> <<"Vanya(", Join(args), ")">>])

\* lines 273-276: /start
cmd_start(s, c, user, t) == create_pet(s, c, OwnerName(user), user.username, t)

---------------------------------------------------------------------------
(* The scheduler daily_reset_loop *)

\* lines 239-243: the next 00:00 MSK after instant t
next_midnight(t) == (DateOf(t + HoursPerDay)) * HoursPerDay

\* a loop whose try does not catch what the pass raised
ExceptionCaughtNever(raised) == FALSE

\* lines 246-249: `except Exception` catches what the pass raised
ExceptionCaught(raised) == TRUE

\* the loop after a pass: on to the next sleep, or ended by the exception
AfterPass(raised, t) ==
    IF raised /\ ~ExceptionCaught(raised)
    THEN [pc |-> "dead", target |-> 0, since |-> t]
    ELSE [pc |-> "sleep", target |-> next_midnight(t), since |-> t]

---------------------------------------------------------------------------
(* History variables *)

NoTime == 0 - 1

\* the record of an operation; rnd is what its random.* call gave: 1 for an
\* illness drawn by /feed, the loss drawn by /walk, 0 for none; call is the
\* suspended call that a reply resumed
Op(op, c, pre, fail, raised) ==
    [op |-> op, chat |-> c, t |-> now, pre |-> pre, fail |-> fail,
     raised |-> raised, rnd |-> 0, call |-> <<>>]

\* the latest date with a pass, and the resets each row got on that date
CountPass(h, pre, post, t) ==
    LET same == h.passDate = DateOf(t)
        got(c) == IF HasPet(pre, c) /\ post[c] # pre[c] THEN 1 ELSE 0
    IN  [h EXCEPT !.passDate = DateOf(t),
                  !.applied = [c \in Chats |->
                                 IF same THEN @[c] + got(c) ELSE got(c)]]

\* an accepted command that consumed a pending boycott_active
CountConsumed(h, pre, post, c, t) ==
    IF HasPet(pre, c) /\ post[c] # pre[c] /\ pre[c].boycott_active = 1
    THEN [h EXCEPT !.consumedAt[c] = t]
    ELSE h

---------------------------------------------------------------------------
(* The state machine *)

Init ==
    /\ now = 0
    /\ store = [c \in {} |-> 0]
    /\ sched = [pc |-> "init", target |-> 0, since |-> 0]
    /\ last = Op("none", 0, store, NoFail, FALSE)
    /\ hist = [passDate |-> NoTime,
               applied |-> [c \in Chats |-> 0],
               consumedAt |-> [c \in Chats |-> NoTime]]
    /\ ncmds = 0
    /\ flight = {}

\* the process is up: the handlers run once post_init has started the loop
Up == sched.pc # "init"

\* the wall clock has reached the midnight the loop sleeps until
Overdue == sched.pc = "sleep" /\ now >= sched.target

\* lines 243-244: the sleep of the loop is over.  wait_seconds is computed
\* from the wall clock and slept on the clock of the event loop, which the
\* wall clock may lag behind: a sleep that began at an earlier instant may
\* end in the last hour before its midnight
Due ==
    /\ sched.pc = "sleep"
    /\ \/ now >= sched.target
       \/ now >= sched.target - EarlyBy /\ now > sched.since

\* the instants after t at which something happens
Later(t, limit) == { u \in (t + 1)..limit : HourOf(u) \in Hours }

\* time passes, to the next instant at which something happens.  asyncio.sleep
\* may return late: with `prompt` the loop wakes no later than the hour its
\* sleep ends in, without it the wake-up may come any time later.
\* reply_text gives up within its timeouts: a call is held over at most one
\* step of the clock.
Tick(limit, prompt) ==
    /\ Later(now, limit) # {}
    /\ prompt => ~Overdue
    /\ \A call \in flight : call.t = now
    /\ now' = MinOf(Later(now, limit))
    /\ last' = [Op("tick", 0, store, NoFail, FALSE) EXCEPT !.t = now']
    /\ UNCHANGED <<store, sched, hist, ncmds, flight>>

\* start_background_tasks: the loop computes its first wait and sleeps
Boot ==
    /\ sched.pc = "init"
    /\ sched' = [pc |-> "sleep", target |-> next_midnight(now), since |-> now]
    /\ last' = Op("boot", 0, store, NoFail, FALSE)
    /\ UNCHANGED <<now, store, hist, ncmds, flight>>

\* the process is restarted: the table stays, the loop starts over and
\* computes its wait from the current time
Restart ==
    /\ sched.pc # "init"
    /\ sched' = [pc |-> "sleep", target |-> next_midnight(now), since |-> now]
    /\ UNCHANGED <<now, store, last, hist, ncmds, flight>>

Start(c, user) ==
    /\ Up
    /\ store' = cmd_start(store, c, user, now)
    /\ last' = Op("start", c, store, NoFail, FALSE)
    /\ UNCHANGED <<now, sched, hist, ncmds, flight>>

\* /name: a command of the budget like /feed and /walk
Name(c, args, budget) ==
    /\ Up
    /\ ncmds < budget
    /\ store' = cmd_name(store, c, args)
    /\ last' = Op("name", c, store, NoFail, FALSE)
    /\ ncmds' = ncmds + 1
    /\ UNCHANGED <<now, sched, hist, flight>>

\* the command on chat c at instant t passes the gate and makes its writes
PassesGate(s, c, t) == HasPet(s, c) /\ ~OnCooldown(s[c], t)

\* lines 348-352: random.random() is called in the overfeed branch only;
\* `pet` is the row as read at line 326
FeedDraws(pet, t) == pet[FeedField(meal_period_for_dt(t))] + 1 > OverfeedLimit

\* a behaviour that counts its commands gives them a budget; Unmetered is
\* the budget of one that does not count them
Unmetered == 0 - 1
Metered(budget) == budget # Unmetered
Spent(budget) == IF Metered(budget) THEN ncmds + 1 ELSE ncmds

\* the slot of chat c that `field` counts has not been served today
FirstOfSlot(s, c, field) == HasPet(s, c) /\ s[c][field] = 0

\* lines 324-366: /feed runs on the event loop from its call to its first
\* await.  At the gate with a reply that will raise, the handler is held
\* there, its writes to come in a later step of the loop; every other path
\* has made its last write by then.
Feed(c, ill, raises, budget) ==
    /\ Up
    /\ ill => PassesGate(store, c, now) /\ FeedDraws(store[c], now)
    /\ raises => GateRaised(store, c, now, raises)
    /\ Metered(budget) => ncmds < budget
    /\ store' = cmd_feed(store, c, now, ill)
    /\ flight' = IF GateRaised(store, c, now, raises)
                 THEN flight \cup {Call("feed", c, store, now, ncmds)}
                 ELSE flight
    /\ last' = [Op("feed", c, store, NoFail, GateRaised(store, c, now, raises))
                    EXCEPT !.rnd = IF ill THEN 1 ELSE 0]
    /\ hist' = CountConsumed(hist, store, store', c, now)
    /\ ncmds' = Spent(budget)
    /\ UNCHANGED <<now, sched>>

\* lines 368-407: /walk, likewise
Walk(c, loss, raises, budget) ==
    /\ Up
    /\ loss > 0 => PassesGate(store, c, now)
    /\ raises => GateRaised(store, c, now, raises)
    /\ Metered(budget) => ncmds < budget
    /\ store' = cmd_walk(store, c, now, loss)
    /\ flight' = IF GateRaised(store, c, now, raises)
                 THEN flight \cup {Call("walk", c, store, now, ncmds)}
                 ELSE flight
    /\ last' = [Op("walk", c, store, NoFail, GateRaised(store, c, now, raises))
                    EXCEPT !.rnd = loss]
    /\ hist' = CountConsumed(hist, store, store', c, now)
    /\ ncmds' = Spent(budget)
    /\ UNCHANGED <<now, sched>>

\* /feed and /walk of a pet in a slot not yet served today: random.random()
\* is not called on the first feed of a period (line 348), the event of the
\* walk may fire and the reply of the gate may raise
FirstFeed(c, raises) ==
    /\ FirstOfSlot(store, c, FeedField(meal_period_for_dt(now)))
    /\ Feed(c, FALSE, raises, Unmetered)

FirstWalk(c, loss, raises) ==
    /\ FirstOfSlot(store, c, WalkField(walk_period(now)))
    /\ Walk(c, loss, raises, Unmetered)

\* the random numbers a resumed call can draw
Rnd(call) == IF call.op = "feed" THEN 0..1 ELSE 0..3

\* lines 336-364 (379-405): the reply of a held call raises and the handler
\* runs to its end
Reply(call, rnd) ==
    /\ call \in flight
    /\ rnd \in Rnd(call)
    /\ (call.op = "feed" /\ rnd = 1) => FeedDraws(call.read, now)
    /\ store' = AfterReply(store, call, now, rnd)
    /\ flight' = flight \ {call}
    /\ last' = [Op("reply", call.chat, store, NoFail, TRUE)
                    EXCEPT !.call = <<call>>, !.rnd = rnd]
    /\ hist' = CountConsumed(hist, store, store', call.chat, now)
    /\ UNCHANGED <<now, sched, ncmds>>

\* the loop wakes, runs the pass and goes round to its next sleep
Wake(failAt) ==
    /\ Due
    /\ store' \in apply_daily_reset_all(store, failAt, now)
    /\ sched' = AfterPass(PassRaised(store, failAt), now)
    /\ last' = Op("reset", 0, store, failAt, PassRaised(store, failAt))
    /\ hist' = CountPass(hist, store, store', now)
    /\ UNCHANGED <<now, ncmds, flight>>

\* one chat plays: its commands, the clock and the loop of a process that
\* stays up
Next ==
    \/ Tick(Horizon(MaxDays), TRUE)
    \/ Boot
    \/ \E c \in GameChats, user \in Users : Start(c, user)
    \/ \E c \in GameChats, args \in NameArgs : Name(c, args, MaxCmds)
    \/ \E c \in GameChats, ill \in BOOLEAN, raises \in BOOLEAN :
           Feed(c, ill, raises, MaxCmds)
    \/ \E c \in GameChats, loss \in 0..3, raises \in BOOLEAN :
           Walk(c, loss, raises, MaxCmds)
    \/ \E failAt \in {NoFail} \cup DOMAIN store : Wake(failAt)
    \/ \E call \in flight, rnd \in 0..3 : Reply(call, rnd)

Spec == Init /\ [][Next]_vars

\* line 75: boycott_until is a TEXT column; a writer outside the handlers
\* (a manual edit, an older build) leaves text in it that fromisoformat
\* refuses
Corrupt(c) ==
    /\ HasPet(store, c)
    /\ store[c].boycott_until # Garbage
    /\ store' = update_pet(store, c, [boycott_until |-> Garbage])
    /\ last' = Op("corrupt", c, store, NoFail, FALSE)
    /\ UNCHANGED <<now, sched, hist, ncmds, flight>>

\* the chat of Ann looks after its pet, on a table whose boycott_until may
\* be made unparsable; every reply of the gate is sent
CorruptNext ==
    \/ Tick(Horizon(CorruptDays), TRUE)
    \/ Boot
    \/ \E c \in GameChats : Start(c, Ann)
    \/ \E c \in GameChats : FirstFeed(c, FALSE)
    \/ \E c \in GameChats, loss \in 0..3 : FirstWalk(c, loss, FALSE)
    \/ Wake(NoFail)
    \/ \E c \in GameChats : Corrupt(c)

CorruptSpec == Init /\ [][CorruptNext]_vars

\* one chat plays over several days with a database that does not fail
LongNext ==
    \/ Tick(Horizon(LongDays), TRUE)
    \/ Boot
    \/ \E c \in GameChats, user \in Users : Start(c, user)
    \/ \E c \in GameChats, args \in NameArgs : Name(c, args, LongCmds)
    \/ \E c \in GameChats, ill \in BOOLEAN, raises \in BOOLEAN :
           Feed(c, ill, raises, LongCmds)
    \/ \E c \in GameChats, loss \in 0..3, raises \in BOOLEAN :
           Walk(c, loss, raises, LongCmds)
    \/ Wake(NoFail)
    \/ \E call \in flight, rnd \in 0..3 : Reply(call, rnd)

LongSpec == Init /\ [][LongNext]_vars

\* one chat looks after its pet: it sends /feed and /walk for slots not yet
\* served that day and no /name; the database does not fail.  The commands
\* are not counted.
CareNext ==
    \/ Tick(Horizon(CareDays), TRUE)
    \/ Boot
    \/ \E c \in GameChats, user \in Users : Start(c, user)
    \/ \E c \in GameChats, raises \in BOOLEAN : FirstFeed(c, raises)
    \/ \E c \in GameChats, loss \in 0..3, raises \in BOOLEAN :
           FirstWalk(c, loss, raises)
    \/ Wake(NoFail)
    \/ \E call \in flight, rnd \in 0..3 : Reply(call, rnd)

CareSpec == Init /\ [][CareNext]_vars

\* the pet of Ann, left alone for days and then fed: the clock, the loop and
\* /feed, with a database that does not fail; the pet keeps its name
FeedNext ==
    \/ Tick(Horizon(FeedDays), TRUE)
    \/ Boot
    \/ \E c \in GameChats : Start(c, Ann)
    \/ \E c \in GameChats, ill \in BOOLEAN, raises \in BOOLEAN :
           Feed(c, ill, raises, FeedCmds)
    \/ Wake(NoFail)
    \/ \E call \in flight, rnd \in 0..3 : Reply(call, rnd)

FeedSpec == Init /\ [][FeedNext]_vars

\* the scheduler over several days: every chat starts its pet, one of them
\* renames it, nobody feeds or walks, the process may be restarted at any time
SchedNext ==
    \/ Tick(Horizon(SchedDays), FALSE)
    \/ Boot
    \/ Restart
    \/ \E c \in Chats, user \in Users : Start(c, user)
    \/ \E c \in GameChats, args \in NameArgs : Name(c, args, SchedCmds)
    \/ \E failAt \in {NoFail} \cup DOMAIN store : Wake(failAt)

SchedSpec == Init /\ [][SchedNext]_vars

\* the scheduler of a process that stays up, with one chat, and with the
\* progress the event loop gives: time passes, a created task starts, a sleep
\* that is over ends
LiveNext ==
    \/ Tick(Horizon(SchedDays), TRUE)
    \/ Boot
    \/ \E c \in GameChats, user \in Users : Start(c, user)
    \/ \E failAt \in {NoFail} \cup DOMAIN store : Wake(failAt)

LiveSpec ==
    /\ Init
    /\ [][LiveNext]_vars
    /\ WF_vars(Tick(Horizon(SchedDays), TRUE))
    /\ WF_vars(Boot)
    /\ WF_vars(\E failAt \in {NoFail} \cup DOMAIN store : Wake(failAt))

---------------------------------------------------------------------------
(* The properties *)

\* the row of chat c before and after the operation that led here
Before(c) == last.pre[c]
After(c) == store[c]

\* the operation that led here was /feed or /walk of a chat that has a pet
Commanded(c) ==
    /\ last.op \in {"feed", "walk"}
    /\ last.chat = c
    /\ c \in DOMAIN last.pre

\* the call that the reply which led here resumed: a /feed or a /walk that
\* met a running timer
Resumed == last.call[1]

\* the stored boycott_until of the row is a timestamp later than t
TimerAfter(row, t) == row.boycott_until.kind = "iso" /\ row.boycott_until.t > t

\* the command that led here passed the gate: no boycott timer was running
Accepted(c) == Commanded(c) /\ ~TimerAfter(Before(c), last.t)

\* the feed counter of the row for the meal period of instant t
PeriodFeeds(row, t) ==
    IF HourOf(t) \in 5..11 THEN row.feed_morning
    ELSE IF HourOf(t) \in 12..16 THEN row.feed_afternoon
    ELSE row.feed_evening

\* the operation that led here was a reset pass that reset the row of c
GotReset(c) ==
    /\ last.op = "reset"
    /\ c \in DOMAIN last.pre
    /\ After(c).days_lived = Before(c).days_lived + 1

\* C1: a feed or a walk issued while boycott_until is set, parseable and
\* later than the time of the command leaves every field of the row as it
\* was, in the step that takes the command and in the step that ends it
C1_RejectedOnCooldown ==
    /\ \A c \in Chats :
           (Commanded(c) /\ TimerAfter(Before(c), last.t)) => store = last.pre
    /\ last.op = "reply" => store = last.pre

\* C2: experience, total_feeds, total_walks, anger and hunger_scale of every
\* row are never negative
C2_NonNegative ==
    \A c \in DOMAIN store :
        /\ store[c].experience >= 0
        /\ store[c].total_feeds >= 0
        /\ store[c].total_walks >= 0
        /\ store[c].anger >= 0
        /\ store[c].hunger_scale >= 0

\* the third feed of a period, which draws the illness: the overfeed branch
\* has run and has added 50 to the hunger
C2_Witness ==
    \E c \in Chats :
        /\ Accepted(c)
        /\ last.op = "feed"
        /\ last.rnd = 1
        /\ PeriodFeeds(Before(c), last.t) >= OverfeedLimit
        /\ After(c).hunger_scale = Before(c).hunger_scale + IllnessHunger

\* C3: anger is at most 100 in the row of every pet a reset pass has just
\* reset, and within 0..100 in every state
C3_AngerBounded ==
    /\ \A c \in Chats : GotReset(c) => After(c).anger <= 100
    /\ \A c \in DOMAIN store : store[c].anger \in 0..100

\* a reset of a pet that was not wholly neglected, whose penalties reach 100
C3_Witness ==
    \E c \in Chats :
        /\ GotReset(c)
        /\ Before(c).walk_evening > 0
        /\ Before(c).feed_morning = 0
        /\ After(c).anger = 100

\* C4: an accepted feed that is the 3rd or later of its meal period, from
\* experience e >= 2, stores experience (e + 1) - 2
C4_OverfeedPenalty ==
    \A c \in Chats :
        ( /\ Accepted(c)
          /\ last.op = "feed"
          /\ PeriodFeeds(Before(c), last.t) >= 2
          /\ Before(c).experience >= 2 )
        => After(c).experience = (Before(c).experience + 1) - 2

\* the five daily counters of a row are all 0
NoSlotDone(row) ==
    /\ row.feed_morning = 0 /\ row.feed_afternoon = 0 /\ row.feed_evening = 0
    /\ row.walk_morning = 0 /\ row.walk_evening = 0

\* C5: the reset of a row whose five daily counters are all 0 stores anger
\* 100 and hunger_scale 100 over its value before the reset
C5_NeglectedReset ==
    \A c \in Chats :
        (GotReset(c) /\ NoSlotDone(Before(c)))
        => /\ After(c).anger = 100
           /\ After(c).hunger_scale = Before(c).hunger_scale + 100

\* such a reset of a row that was already angry and hungry
C5_Witness ==
    \E c \in Chats :
        /\ GotReset(c)
        /\ NoSlotDone(Before(c))
        /\ Before(c).hunger_scale >= 100
        /\ Before(c).anger > 0

\* the penalties a slot can add to anger: its range when missed, nothing when
\* fulfilled
SlotPenalty(count, lo, hi) == IF count > 0 THEN {0} ELSE lo..hi
SlotMissed(count) == IF count > 0 THEN 0 ELSE 1

\* C6: the reset of a row with a fulfilled slot stores anger = min(100, old
\* anger + one value of its range for each missed slot), hunger_scale = old
\* hunger_scale + 20 for each missed slot, the five counters at 0 and
\* days_lived one higher
C6_PartialReset ==
    \A c \in Chats :
        (GotReset(c) /\ ~NoSlotDone(Before(c)))
        => LET b == Before(c)
               a == After(c)
               missed ==   SlotMissed(b.feed_morning) + SlotMissed(b.walk_morning)
                         + SlotMissed(b.feed_afternoon) + SlotMissed(b.feed_evening)
                         + SlotMissed(b.walk_evening)
           IN  /\ \E fm \in SlotPenalty(b.feed_morning, 28, 30),
                     wm \in SlotPenalty(b.walk_morning, 16, 20),
                     fa \in SlotPenalty(b.feed_afternoon, 20, 20),
                     fe \in SlotPenalty(b.feed_evening, 32, 34),
                     we \in SlotPenalty(b.walk_evening, 16, 20) :
                       a.anger = Min(100, b.anger + fm + wm + fa + fe + we)
               /\ a.hunger_scale = b.hunger_scale + 20 * missed
               /\ NoSlotDone(a)
               /\ a.days_lived = b.days_lived + 1

\* such a reset with two slots fulfilled, whose penalties stay under 100
C6_Witness ==
    \E c \in Chats :
        /\ GotReset(c)
        /\ Before(c).feed_morning > 0
        /\ Before(c).walk_evening > 0
        /\ After(c).anger \in 1..99
        /\ After(c).hunger_scale = Before(c).hunger_scale + 60

\* C7: (a) a feed at t of a pet whose anger a reset took to 100, with
\* boycott_active pending and no timer running, clears boycott_active and
\* stores boycott_until = t + 2h; (b) a feed one hour after the command that
\* consumed the boycott changes no field
C7_BoycottSequence ==
    \A c \in Chats :
        /\ ( /\ Accepted(c)
             /\ last.op = "feed"
             /\ Before(c).boycott_active = 1
             /\ Before(c).anger >= 100 )
           => /\ After(c).boycott_active = 0
              /\ After(c).boycott_until = [kind |-> "iso", t |-> last.t + 2]
        /\ ( /\ \/ Commanded(c) /\ last.op = "feed" /\ last.t = hist.consumedAt[c] + 1
                \/ /\ last.op = "reply"
                   /\ Resumed.chat = c
                   /\ Resumed.op = "feed"
                   /\ Resumed.t = hist.consumedAt[c] + 1
             /\ hist.consumedAt[c] # NoTime )
           => store = last.pre

\* C8: no pet is reset more than once on one date
C8_OncePerDay == \A c \in Chats : hist.applied[c] <= 1

\* C9: in a reset pass every pet other than one whose reset failed receives
\* its reset
C9_FailureIsolated ==
    last.op = "reset"
    => \A c \in DOMAIN last.pre :
          c # last.fail => After(c).days_lived = Before(c).days_lived + 1

\* C10: a failed pass does not end the loop: after every pass the loop sleeps
\* until the next midnight after the current time, and the pass of a day is
\* followed by the pass of the next day
C10_LoopGoesOn ==
    /\ [](sched.pc # "dead")
    /\ [](last.op = "reset"
            => /\ sched.pc = "sleep"
               /\ sched.target = (DateOf(now) + 1) * HoursPerDay)
    /\ \A d \in 1..(SchedDays - 1) :
          (last.op = "reset" /\ hist.passDate = d) ~> (hist.passDate = d + 1)

\* a pass that raised, after which the loop sleeps until the next midnight
C10_Witness ==
    /\ last.op = "reset"
    /\ last.raised
    /\ hist.passDate \in 1..(SchedDays - 1)
    /\ sched.pc = "sleep"
    /\ sched.target = (hist.passDate + 1) * HoursPerDay

\* C11: /start of a chat id that has a pet leaves every field of its row, and
\* every other row, as it was and adds no row, whatever feeds, walks and
\* resets came before and whoever sends it
C11_CreateIdempotent ==
    \A c \in Chats :
        (last.op = "start" /\ last.chat = c /\ c \in DOMAIN last.pre)
            => /\ store = last.pre
               /\ DOMAIN store = DOMAIN last.pre

\* a /start on a pet that has been fed, has gained experience and has lived
\* through a reset
C11_Witness ==
    \E c \in Chats :
        /\ last.op = "start"
        /\ last.chat = c
        /\ c \in DOMAIN last.pre
        /\ Before(c).total_feeds > 0
        /\ Before(c).experience > 0
        /\ Before(c).days_lived > 0

\* the table the command led to, had the boycott_until of the row been NULL
AsIfNoTimer(c) ==
    LET clean == update_pet(last.pre, c, [boycott_until |-> Null])
    IN  IF last.op = "feed" THEN cmd_feed(clean, c, last.t, last.rnd = 1)
        ELSE cmd_walk(clean, c, last.t, last.rnd)

\* C12: a feed or a walk of a row whose boycott_until does not parse is
\* accepted: its counters go up and every column ends as after the same
\* command on the row with no boycott_until, the unparsable text staying in
\* place unless the command stamps a new timer over it
C12_UnparsableAccepted ==
    \A c \in Chats :
        (Commanded(c) /\ Before(c).boycott_until = Garbage) =>
            LET ref == AsIfNoTimer(c)[c]
                cnt == IF last.op = "feed"
                       THEN FeedField(meal_period_for_dt(last.t))
                       ELSE WalkField(walk_period(last.t))
                tot == IF last.op = "feed" THEN "total_feeds" ELSE "total_walks"
            IN  /\ After(c)[cnt] = Before(c)[cnt] + 1
                /\ After(c)[tot] = Before(c)[tot] + 1
                /\ \A f \in DOMAIN ref \ {"boycott_until"} : After(c)[f] = ref[f]
                /\ After(c).boycott_until =
                       IF ref.boycott_until = Null THEN Garbage
                       ELSE ref.boycott_until

\* a command of a pet that has been fed or walked before, on a row with
\* unparsable text, which the command leaves in place
C12_Witness ==
    \E c \in Chats :
        /\ Commanded(c)
        /\ Before(c).boycott_until = Garbage
        /\ Before(c).total_feeds + Before(c).total_walks > 0
        /\ After(c).boycott_until = Garbage

\* C13: after every accepted feed or walk at instant t both markers are 0;
\* boycott_until is t + 2h if boycott_active was 1 and as before otherwise,
\* whatever sick_flag was; sick_until is t + 2h if sick_flag was 1, whatever
\* boycott_active was
C13_MarkersIndependent ==
    \A c \in Chats :
        Accepted(c) =>
            /\ After(c).boycott_active = 0
            /\ After(c).sick_flag = 0
            /\ After(c).boycott_until =
                   IF Before(c).boycott_active = 1
                   THEN IsoFormat(last.t + CooldownHours)
                   ELSE Before(c).boycott_until
            /\ Before(c).sick_flag = 1 =>
                   After(c).sick_until = IsoFormat(last.t + CooldownHours)

\* an accepted command that met a pending boycott and no pending sickness,
\* and left sick_until as it was
C13_Witness ==
    \E c \in Chats :
        /\ Accepted(c)
        /\ Before(c).boycott_active = 1
        /\ Before(c).sick_flag = 0
        /\ After(c).boycott_until = IsoFormat(last.t + CooldownHours)
        /\ After(c).sick_until = Before(c).sick_until

\* C14: an accepted walk from experience e whose random event fires with a
\* loss L in 1..3 stores experience max(0, e + 1 - L), and adds 1 to the walk
\* counter of the period and to total_walks
C14_WalkEventLoss ==
    \A c \in Chats :
        (Accepted(c) /\ last.op = "walk" /\ last.rnd \in 1..3) =>
            LET cnt == WalkField(walk_period(last.t))
            IN  /\ After(c).experience =
                       Max(0, Before(c).experience + 1 - last.rnd)
                /\ After(c)[cnt] = Before(c)[cnt] + 1
                /\ After(c).total_walks = Before(c).total_walks + 1

\* the command that led here was carried out: the counter of its period and
\* its total went up by one
Counted(c) ==
    LET cnt == IF last.op = "feed" THEN FeedField(meal_period_for_dt(last.t))
               ELSE WalkField(walk_period(last.t))
        tot == IF last.op = "feed" THEN "total_feeds" ELSE "total_walks"
    IN  /\ After(c)[cnt] = Before(c)[cnt] + 1
        /\ After(c)[tot] = Before(c)[tot] + 1

\* C16: a feed or a walk of a row whose boycott_until is NULL or not later
\* than the command is carried out, whatever sick_until and sick_flag are:
\* the sickness timer and the pending sickness never reject a command
C16_SickNeverBlocks ==
    \A c \in Chats :
        (Commanded(c) /\ ~TimerAfter(Before(c), last.t)) => Counted(c)

\* a command carried out while the sickness timer of the row was running,
\* its boycott timer having run out
C16_Witness ==
    \E c \in Chats :
        /\ Commanded(c)
        /\ Before(c).boycott_until.kind = "iso"
        /\ Before(c).boycott_until.t <= last.t
        /\ Before(c).sick_until.kind = "iso"
        /\ Before(c).sick_until.t > last.t
        /\ Counted(c)

\* C19: boycott_until changes only in an accepted feed or walk that met
\* boycott_active = 1, and then to the time of that command + 2h; /start,
\* rejected commands and reset passes leave it as it was.  So the stored
\* timer is always that of the latest such command, and a command that is not
\* carried out comes less than 2h after it: the latest accepted action being
\* no earlier, a feed or a walk 2h or more after the latest accepted action
\* is carried out.
C19_TimerWrittenOnce ==
    \A c \in DOMAIN store :
        /\ (c \in DOMAIN last.pre /\ After(c).boycott_until # Before(c).boycott_until)
               => /\ Accepted(c)
                  /\ Before(c).boycott_active = 1
                  /\ After(c).boycott_until = IsoFormat(last.t + CooldownHours)
        /\ store[c].boycott_until =
               IF hist.consumedAt[c] = NoTime THEN Null
               ELSE IsoFormat(hist.consumedAt[c] + CooldownHours)
        /\ (Commanded(c) /\ ~Counted(c))
               => /\ hist.consumedAt[c] # NoTime
                  /\ last.t < hist.consumedAt[c] + CooldownHours

StaysHungry(c) ==
    /\ (c \in DOMAIN last.pre /\ Before(c).hunger_scale >= SickThreshold)
           => After(c).hunger_scale >= SickThreshold
    /\ (Accepted(c) /\ Before(c).hunger_scale >= SickThreshold)
           => After(c).sick_until = IsoFormat(last.t + CooldownHours)

\* C17: once hunger_scale is 100 or more it never goes below 100 again; from
\* then on every reset sets sick_flag and boycott_active and leaves total_feeds
\* 3 lower and total_walks 2 lower than it found them, and every accepted
\* feed or walk stores sick_until = its time + 2h
C17_HungryForever ==
    \A c \in DOMAIN store :
        /\ StaysHungry(c)
        /\ (GotReset(c) /\ Before(c).hunger_scale >= SickThreshold)
               => /\ After(c).sick_flag = 1
                  /\ After(c).boycott_active = 1
                  /\ After(c).total_feeds = Before(c).total_feeds - SickFeedPenalty
                  /\ After(c).total_walks = Before(c).total_walks - SickWalkPenalty

\* C17 as the code has it: once hunger_scale is 100 or more it never goes
\* below 100 again; from then on every reset sets sick_flag and
\* boycott_active and takes 3 off total_feeds and 2 off total_walks, neither
\* below 0, and every accepted feed or walk stores sick_until = its time + 2h
C17_HungryFloored ==
    \A c \in DOMAIN store :
        /\ StaysHungry(c)
        /\ (GotReset(c) /\ Before(c).hunger_scale >= SickThreshold)
               => /\ After(c).sick_flag = 1
                  /\ After(c).boycott_active = 1
                  /\ After(c).total_feeds =
                         Max(0, Before(c).total_feeds - SickFeedPenalty)
                  /\ After(c).total_walks =
                         Max(0, Before(c).total_walks - SickWalkPenalty)

\* the second reset of a hungry pet that was fed once in between: the feed
\* stamped sick_until, the reset sets the markers again and takes the one
\* feed off total_feeds
C17_Witness ==
    \E c \in Chats :
        /\ GotReset(c)
        /\ Before(c).hunger_scale >= SickThreshold
        /\ Before(c).sick_until # Null
        /\ Before(c).sick_flag = 0
        /\ Before(c).total_feeds = 1
        /\ After(c).total_feeds = 0
        /\ After(c).sick_flag = 1

\* C15: an accepted feed that is the third or later of its period and draws
\* the illness leaves hunger_scale no lower than it found it and at most 200,
\* whatever the resets before it have added
C15_IllnessRaises ==
    \A c \in Chats :
        ( /\ Accepted(c)
          /\ last.op = "feed"
          /\ last.rnd = 1
          /\ Before(c)[FeedField(meal_period_for_dt(last.t))] >= OverfeedLimit )
        => /\ After(c).hunger_scale >= Before(c).hunger_scale
           /\ After(c).hunger_scale <= IllnessCap

\* C20: the reads and writes of a feed or walk handler never interleave with
\* a pass or another command: the table after every step of a handler is what
\* the handler gives on the table the step found, so the table is always
\* that of the operations taken one after the other.  A call ended by its
\* reply raising leaves what its writes give on the row as it is then.
C20_Serialized ==
    /\ \A c \in Chats :
           Commanded(c) =>
               store = IF last.op = "feed"
                       THEN cmd_feed(last.pre, c, last.t, last.rnd = 1)
                       ELSE cmd_walk(last.pre, c, last.t, last.rnd)
    /\ last.op = "reply" =>
           LET c == Resumed.chat
           IN  store = IF Resumed.op = "feed"
                       THEN FeedWrites(last.pre, c, last.pre[c], last.t, last.rnd = 1)
                       ELSE WalkWrites(last.pre, c, last.pre[c], last.t, last.rnd)

====
